---- MODULE Spec2Model ----
(***************************************************************************)
(* Model of the VectorDB service (src/src/services/vectordb.py): the       *)
(* SQLite catalog (tables metrics, metric_labels, metric_templates), the   *)
(* sqlite-vec index metrics_vec, and the operations of class VectorDB.     *)
(*                                                                         *)
(* Representation                                                          *)
(*   text        a sequence of character codes ("c" is <<99>>)             *)
(*   Optional[T] None is <<>>, a present value x is <<x>>                  *)
(*   embedding   a sequence of integers (the vector's components)          *)
(*   a table     a function from the rowids in use to the rows             *)
(* Similarities are compared exactly (over the reals) by integer           *)
(* arithmetic; the rounding of sqlite-vec's float32 arithmetic is not      *)
(* modelled.                                                               *)
(***************************************************************************)
EXTENDS Integers, Sequences, FiniteSets, TLC

VARIABLES metrics, metric_labels, metric_templates, metrics_vec,
          sqlite_sequence, use_vector_search, last,
          pc,      \* where the constructor stands; "ready" once it returned
          frame,   \* the locals of a running _initialize_db, None otherwise
          vec_dimension,  \* the N of metrics_vec's float[N] column in the
                          \* database file, None while the table does not exist
          txn,     \* the open transaction of self.conn: the tables as the
                   \* connection sees them, None while none is open
          threads  \* per thread, the method call it is in the middle of

vars == <<metrics, metric_labels, metric_templates, metrics_vec,
          sqlite_sequence, use_vector_search, last, pc, frame,
          vec_dimension, txn, threads>>

(* the one connection and the calls running on it *)
session == <<txn, threads>>

(* what a method called on its own, from start to return, leaves as it was: *)
(* the flag, the constructor's position, the schema, and a connection with  *)
(* no open transaction                                                       *)
instance == <<use_vector_search, pc, frame, vec_dimension, session>>

store == <<metrics, metric_labels, metric_templates, metrics_vec, sqlite_sequence>>

-----------------------------------------------------------------------------
(* Bounds of the model *)

(* rows inserted over the three tables in one behaviour of Spec, OwnedSpec *)
MaxInserts == 3
(* metric ids assigned in one behaviour of SearchSpec *)
MaxSearchIds == 3
(* largest top_k passed to similarity_search *)
MaxTopK == 3

(* embedding_dimension of the modelled instance *)
embedding_dimension == 2

None == <<>>
Some(x) == <<x>>

(* The arguments the callers pass.  Zero-length and zero-norm vectors, for   *)
(* which the cosine is undefined, and negative top_k are left out.           *)
MetricNames == {<<99>>, <<109>>}
Descriptions == {Some(<<100>>)}
ExampleQueries == {None}
LabelNames == {<<108>>}
ExampleValues == {Some(<<120>>)}
Templates == {<<116>>}
TemplateTypes == {<<112>>}
Embeddings == {<<1, 0>>}
EmbeddingArgs == {None} \cup {Some(e) : e \in Embeddings}
(* the <<metric_name, embedding>> pairs ingested before searching *)
SearchInputs == {<<(<<99>>), <<1, 0>>>>, <<(<<100>>), <<1, 1>>>>,
                 <<(<<109>>), <<0, 1>>>>, <<(<<109>>), <<2, 0>>>>}
QueryEmbeddings == {<<1, 0>>, <<1>>}
(* thresholds are rationals <<numerator, denominator>>, denominator > 0 *)
Thresholds == {<<0, 1>>, <<7, 10>>}

-----------------------------------------------------------------------------
(* Values *)

Truthy(opt) == opt # None /\ Len(opt[1]) > 0

json_dumps(v) == [json |-> v]
json_loads(t) == t.json

EmbeddingColumn(embedding) ==
    IF Truthy(embedding) THEN Some(json_dumps(embedding[1])) ELSE None

(* The record of the latest call: its arguments, the injected failure, how  *)
(* it ended (outcome "return" or "raise") and what it returned.  For        *)
(* delete_metric it also keeps what the call found: whether the row existed,*)
(* its name, and how many labels and templates it owned.  For the reads     *)
(* ret_list is the ids of the returned metrics in order, and ret_rows the   *)
(* returned dictionaries themselves.  For the constructor path is the       *)
(* extension candidate that loaded ("none" if none did) and attempted the   *)
(* candidates it tried, in order.  For query_llm secret is the secret       *)
(* parameter as the request gave it (None: omitted), prompt the request's   *)
(* prompt and chat the prompt llmClient.chat was called with (None: chat    *)
(* was not called).                                                         *)
NoCall == [op |-> "init", metric_id |-> 0, name |-> <<>>, description |-> None,
           example_query |-> None, embedding |-> None, fault |-> "none",
           top_k |-> 0, threshold |-> <<0, 1>>, path |-> "none",
           existed |-> FALSE, n_labels |-> 0, n_templates |-> 0,
           outcome |-> "return", ret_id |-> 0, ret_ok |-> FALSE, ret_list |-> <<>>,
           ret_rows |-> <<>>, attempted |-> <<>>, secret |-> None, prompt |-> <<>>,
           chat |-> None]

(* the threads that share the instance *)
Threads == {"t1", "t2"}

(* a thread that is in no call *)
Idle == [pc |-> "idle", call |-> NoCall]

-----------------------------------------------------------------------------
(* The instance after __init__ on a new database file: empty tables, and    *)
(* use_vector_search as the loading of sqlite-vec and the creation of the   *)
(* metrics_vec table left it.  With a catalog failure injected (fault        *)
(* "catalog": a catalog statement raises) a writer rolls back; with an      *)
(* index failure injected (fault "index") the index statement raises inside  *)
(* its own try/except.  Fault "commit" is the commit raising after all the   *)
(* statements of the call ran.                                               *)
Init ==
    /\ metrics = <<>>
    /\ metric_labels = <<>>
    /\ metric_templates = <<>>
    /\ metrics_vec = <<>>
    /\ sqlite_sequence = [metrics |-> 0, metric_labels |-> 0, metric_templates |-> 0]
    /\ use_vector_search \in BOOLEAN
    /\ last = NoCall
    /\ pc = "ready"
    /\ frame = None
    /\ vec_dimension = IF use_vector_search THEN Some(embedding_dimension) ELSE None
    /\ txn = None
    /\ threads = [t \in Threads |-> Idle]

(* rows inserted so far over the three AUTOINCREMENT tables *)
Inserted ==
    sqlite_sequence.metrics + sqlite_sequence.metric_labels
        + sqlite_sequence.metric_templates

(* the metric ids a caller may pass: every id assigned so far (live, replaced *)
(* or deleted) and one that was never assigned                               *)
MetricIds == 1..(sqlite_sequence.metrics + 1)

Restrict(f, S) == [x \in S |-> f[x]]
Put(f, k, v) == [x \in (DOMAIN f) \cup {k} |-> IF x = k THEN v ELSE f[x]]

get_metric_labels(metric_id) ==
    {[id |-> i, label_name |-> metric_labels[i].label_name,
      example_values |-> metric_labels[i].example_values] :
        i \in {j \in DOMAIN metric_labels : metric_labels[j].metric_id = metric_id}}

get_metric_templates(metric_id) ==
    {[id |-> i, template |-> metric_templates[i].template,
      template_type |-> metric_templates[i].template_type,
      description |-> metric_templates[i].description] :
        i \in {j \in DOMAIN metric_templates :
                  metric_templates[j].metric_id = metric_id}}

-----------------------------------------------------------------------------
(* Transactions.  A writer's statements act on the connection's view of the  *)
(* tables; commit makes the view the stored state, rollback drops it.        *)

(* the tables as they are stored *)
Stored ==
    [metrics |-> metrics, metric_labels |-> metric_labels,
     metric_templates |-> metric_templates, metrics_vec |-> metrics_vec,
     sqlite_sequence |-> sqlite_sequence]

Install(t) ==
    /\ metrics' = t.metrics
    /\ metric_labels' = t.metric_labels
    /\ metric_templates' = t.metric_templates
    /\ metrics_vec' = t.metrics_vec
    /\ sqlite_sequence' = t.sqlite_sequence

(* an except branch that forgets self.conn.rollback(): the statements of the *)
(* failed call stay in the connection's open transaction                     *)
rollback_missing(committed, pending) == pending

(* self.conn.rollback() *)
rollback(committed, pending) == committed

(* the inner try/except of add_metric missing: an index failure reaches the *)
(* outer except too                                                          *)
add_metric_aborts_on_index(fault) == fault \in {"catalog", "commit", "index"}

(* the failures that reach add_metric's outer except: a failing INSERT INTO  *)
(* metrics ("catalog") or a failing commit; the index INSERT has its own     *)
(* try/except                                                                *)
add_metric_aborts(fault) == fault \in {"catalog", "commit"}

(* add_metric: INSERT OR REPLACE on the UNIQUE metric_name deletes the row of *)
(* that name and inserts a new one under the next AUTOINCREMENT id; the      *)
(* index write is tried inside its own try/except.                          *)
(* the largest key of a table's rows, 0 for an empty table *)
MaxRowid(rows) ==
    IF DOMAIN rows = {} THEN 0
    ELSE CHOOSE i \in DOMAIN rows : \A j \in DOMAIN rows : j <= i

(* id INTEGER PRIMARY KEY without AUTOINCREMENT: one more than the largest  *)
(* rowid in the table now, so the id of a deleted last row is handed out    *)
(* again                                                                    *)
rowid_reusing(rows, seq) == MaxRowid(rows) + 1

(* id INTEGER PRIMARY KEY AUTOINCREMENT: one more than the largest rowid    *)
(* the table ever held, which sqlite_sequence keeps                         *)
autoincrement(rows, seq) == seq + 1

add_metric(metric_name, description, example_query, embedding, fault) ==
    LET metric_id == autoincrement(metrics, sqlite_sequence.metrics)
        kept == {i \in DOMAIN metrics : metrics[i].metric_name # metric_name}
        row == [metric_name |-> metric_name, description |-> description,
                example_query |-> example_query,
                embedding |-> EmbeddingColumn(embedding)]
        indexed == Truthy(embedding) /\ use_vector_search
        call == [NoCall EXCEPT !.op = "add_metric", !.name = metric_name,
                     !.description = description, !.example_query = example_query,
                     !.embedding = embedding, !.fault = fault]
        written ==
            [Stored EXCEPT
                !.metrics = Put(Restrict(metrics, kept), metric_id, row),
                !.sqlite_sequence = [sqlite_sequence EXCEPT !.metrics = metric_id],
                !.metrics_vec =
                    IF indexed /\ fault # "index"
                          /\ vec_dimension = Some(Len(embedding[1]))
                    THEN Put(metrics_vec, metric_id, embedding[1])
                    ELSE metrics_vec]
        pending == IF fault = "commit" THEN written ELSE Stored
    IN  /\ Inserted < MaxInserts
        /\ fault = "index" => indexed
        /\ IF add_metric_aborts(fault)
           THEN /\ Install(rollback(Stored, pending))
                /\ last' = [call EXCEPT !.outcome = "raise"]
           ELSE /\ Install(written)
                /\ last' = [call EXCEPT !.ret_id = metric_id]
        /\ UNCHANGED instance

AddMetric ==
    /\ pc = "ready"
    /\ \E n \in MetricNames, d \in Descriptions, q \in ExampleQueries,
          e \in EmbeddingArgs, f \in {"none", "index", "catalog", "commit"} :
           add_metric(n, d, q, e, f)

(* a plain INSERT into a table without the UNIQUE constraint: no row gives  *)
(* way to the new one                                                        *)
replaced_labels_none(metric_id, label_name) == {}

(* the rows INSERT OR REPLACE deletes: those in conflict with the new row on *)
(* UNIQUE(metric_id, label_name)                                             *)
replaced_labels(metric_id, label_name) ==
    {i \in DOMAIN metric_labels :
        /\ metric_labels[i].metric_id = metric_id
        /\ metric_labels[i].label_name = label_name}

(* add_metric_label: INSERT OR REPLACE on UNIQUE(metric_id, label_name); the *)
(* FOREIGN KEY clause is not enforced (the connection never sets PRAGMA      *)
(* foreign_keys), so any metric_id is accepted.                              *)
add_metric_label(metric_id, label_name, example_values, fault) ==
    LET label_id == sqlite_sequence.metric_labels + 1
        kept == DOMAIN metric_labels \ replaced_labels(metric_id, label_name)
        row == [metric_id |-> metric_id, label_name |-> label_name,
                example_values |-> example_values]
        call == [NoCall EXCEPT !.op = "add_metric_label", !.metric_id = metric_id,
                     !.name = label_name, !.description = example_values,
                     !.fault = fault,
                     !.existed = replaced_labels(metric_id, label_name) # {}]
        written ==
            [Stored EXCEPT
                !.metric_labels = Put(Restrict(metric_labels, kept), label_id, row),
                !.sqlite_sequence =
                    [sqlite_sequence EXCEPT !.metric_labels = label_id]]
        pending == IF fault = "commit" THEN written ELSE Stored
    IN  /\ Inserted < MaxInserts
        /\ IF fault \in {"catalog", "commit"}
           THEN /\ Install(rollback(Stored, pending))
                /\ last' = [call EXCEPT !.outcome = "raise"]
           ELSE /\ Install(written)
                /\ last' = [call EXCEPT !.ret_id = label_id]
        /\ UNCHANGED instance

AddMetricLabel ==
    /\ pc = "ready"
    /\ \E m \in MetricIds, l \in LabelNames, v \in ExampleValues,
          f \in {"none", "catalog", "commit"} :
           add_metric_label(m, l, v, f)

(* INSERT OR REPLACE on a table with a uniqueness key over all the columns  *)
(* of a template: an identical row gives way to the new one                  *)
replaced_templates_same(row) ==
    {i \in DOMAIN metric_templates : metric_templates[i] = row}

(* the rows the plain INSERT INTO metric_templates deletes: none, the table  *)
(* has no uniqueness key but its id                                          *)
replaced_templates(row) == {}

(* add_metric_template: plain INSERT, no uniqueness key *)
add_metric_template(metric_id, template, template_type, description, fault) ==
    LET template_id == sqlite_sequence.metric_templates + 1
        row == [metric_id |-> metric_id, template |-> template,
                template_type |-> template_type, description |-> description]
        call == [NoCall EXCEPT !.op = "add_metric_template", !.metric_id = metric_id,
                     !.name = template, !.description = description,
                     !.fault = fault]
        written ==
            [Stored EXCEPT
                !.metric_templates =
                    Put(Restrict(metric_templates,
                                 DOMAIN metric_templates \ replaced_templates(row)),
                        template_id, row),
                !.sqlite_sequence =
                    [sqlite_sequence EXCEPT !.metric_templates = template_id]]
        pending == IF fault = "commit" THEN written ELSE Stored
    IN  /\ Inserted < MaxInserts
        /\ IF fault \in {"catalog", "commit"}
           THEN /\ Install(rollback(Stored, pending))
                /\ last' = [call EXCEPT !.outcome = "raise"]
           ELSE /\ Install(written)
                /\ last' = [call EXCEPT !.ret_id = template_id]
        /\ UNCHANGED instance

AddMetricTemplate ==
    /\ pc = "ready"
    /\ \E m \in MetricIds, t \in Templates, ty \in TemplateTypes,
          f \in {"none", "catalog", "commit"} :
           add_metric_template(m, t, ty, None, f)

(* the inner try/except of delete_metric missing: an index failure reaches  *)
(* the outer except too                                                      *)
delete_metric_aborts_on_index(fault) == fault \in {"catalog", "commit", "index"}

(* the failures that reach delete_metric's outer except: a failing catalog   *)
(* DELETE ("catalog": the first one, on metric_templates) or a failing       *)
(* commit; the index DELETE has its own try/except                           *)
delete_metric_aborts(fault) == fault \in {"catalog", "commit"}

(* the three catalog DELETE statements of delete_metric, without the one on *)
(* metric_labels                                                             *)
delete_cascade_keeps_labels(t, metric_id) ==
    [t EXCEPT
        !.metric_templates = Restrict(t.metric_templates,
            {i \in DOMAIN t.metric_templates :
                t.metric_templates[i].metric_id # metric_id}),
        !.metrics = Restrict(t.metrics, DOMAIN t.metrics \ {metric_id})]

(* the three catalog DELETE statements of delete_metric, the first without  *)
(* its WHERE clause                                                          *)
delete_cascade_all_templates(t, metric_id) ==
    [t EXCEPT
        !.metric_templates = <<>>,
        !.metric_labels = Restrict(t.metric_labels,
            {i \in DOMAIN t.metric_labels :
                t.metric_labels[i].metric_id # metric_id}),
        !.metrics = Restrict(t.metrics, DOMAIN t.metrics \ {metric_id})]

(* the three catalog DELETE statements of delete_metric: templates, labels, *)
(* then the metric row                                                       *)
delete_cascade(t, metric_id) ==
    [t EXCEPT
        !.metric_templates = Restrict(t.metric_templates,
            {i \in DOMAIN t.metric_templates :
                t.metric_templates[i].metric_id # metric_id}),
        !.metric_labels = Restrict(t.metric_labels,
            {i \in DOMAIN t.metric_labels :
                t.metric_labels[i].metric_id # metric_id}),
        !.metrics = Restrict(t.metrics, DOMAIN t.metrics \ {metric_id})]

(* delete_metric: the index delete is tried first and its failure swallowed; *)
(* a failing catalog statement or commit rolls back and returns False; every *)
(* other call returns True.                                                  *)
delete_metric(metric_id, fault) ==
    LET existed == metric_id \in DOMAIN metrics
        call == [NoCall EXCEPT !.op = "delete_metric", !.metric_id = metric_id,
                     !.fault = fault, !.existed = existed,
                     !.name = IF existed THEN metrics[metric_id].metric_name ELSE <<>>,
                     !.n_labels = Cardinality(get_metric_labels(metric_id)),
                     !.n_templates = Cardinality(get_metric_templates(metric_id))]
        unindexed ==
            [Stored EXCEPT
                !.metrics_vec =
                    IF use_vector_search /\ fault # "index"
                    THEN Restrict(metrics_vec, DOMAIN metrics_vec \ {metric_id})
                    ELSE metrics_vec]
        written == delete_cascade(unindexed, metric_id)
        pending == IF fault = "commit" THEN written ELSE unindexed
    IN  /\ fault = "index" => use_vector_search
        /\ IF delete_metric_aborts(fault)
           THEN /\ Install(rollback(Stored, pending))
                /\ last' = [call EXCEPT !.ret_ok = FALSE]
           ELSE /\ Install(written)
                /\ last' = [call EXCEPT !.ret_ok = TRUE]
        /\ UNCHANGED instance

DeleteMetric ==
    /\ pc = "ready"
    /\ \E m \in MetricIds, f \in {"none", "index", "catalog", "commit"} :
           delete_metric(m, f)

-----------------------------------------------------------------------------
(* Reads *)

(* get_metric_by_name: None, or the one row of that name with its embedding *)
(* parsed back and its labels and templates attached                        *)
get_metric_by_name(metric_name) ==
    LET rows == {i \in DOMAIN metrics : metrics[i].metric_name = metric_name}
    IN  IF rows = {} THEN None
        ELSE LET i == CHOOSE j \in rows : TRUE
             IN  Some([id |-> i, metric_name |-> metrics[i].metric_name,
                       description |-> metrics[i].description,
                       example_query |-> metrics[i].example_query,
                       embedding |-> IF metrics[i].embedding # None
                                     THEN Some(json_loads(metrics[i].embedding[1]))
                                     ELSE None,
                       labels |-> get_metric_labels(i),
                       templates |-> get_metric_templates(i)])

(* BINARY collation of ORDER BY metric_name: bytewise, a prefix sorts first *)
RECURSIVE NameLess(_, _)
NameLess(a, b) ==
    IF b = <<>> THEN FALSE
    ELSE IF a = <<>> THEN TRUE
    ELSE IF Head(a) # Head(b) THEN Head(a) < Head(b)
    ELSE NameLess(Tail(a), Tail(b))

Injective(s) == \A i, j \in DOMAIN s : i # j => s[i] # s[j]

(* the rows of S in ORDER BY metric_name order (metric_name is UNIQUE) *)
RECURSIVE ByName(_)
ByName(S) ==
    IF S = {} THEN <<>>
    ELSE LET i == CHOOSE j \in S : \A k \in S \ {j} :
                      NameLess(metrics[j].metric_name, metrics[k].metric_name)
         IN  <<i>> \o ByName(S \ {i})

(* the ids of get_all_metrics' rows, in order *)
AllMetricIds == ByName(DOMAIN metrics)

(* the dictionary of a row with the labels of every metric attached *)
HydrateAllLabels(i) ==
    [id |-> i, metric_name |-> metrics[i].metric_name,
     description |-> metrics[i].description,
     example_query |-> metrics[i].example_query,
     labels |-> UNION {get_metric_labels(j) : j \in 1..sqlite_sequence.metrics},
     templates |-> get_metric_templates(i)]

(* the dictionary get_all_metrics and search_by_text build from a row *)
Hydrate(i) ==
    [id |-> i, metric_name |-> metrics[i].metric_name,
     description |-> metrics[i].description,
     example_query |-> metrics[i].example_query,
     labels |-> get_metric_labels(i), templates |-> get_metric_templates(i)]

get_all_metrics == [k \in DOMAIN AllMetricIds |-> Hydrate(AllMetricIds[k])]

Min(a, b) == IF a < b THEN a ELSE b

(* s[:k] and LIMIT k that truncate nothing *)
LimitAll(s, k) == s

(* s[:k] for k >= 0, and SQL's LIMIT k *)
Limit(s, k) == SubSeq(s, 1, Min(k, Len(s)))

-----------------------------------------------------------------------------
(* Cosine similarity, 1 - vec_distance_cosine(e, q) = e.q / (|e| |q|) *)

RECURSIVE Dot(_, _)
Dot(a, b) == IF a = <<>> THEN 0 ELSE Head(a) * Head(b) + Dot(Tail(a), Tail(b))

NormSq(a) == Dot(a, a)

(* z |z|: monotone in z, so x sqrt(m) >= y sqrt(n) iff x|x| m >= y|y| n *)
SignedSquare(z) == IF z >= 0 THEN z * z ELSE 0 - z * z

(* similarity(e, q) >= t for t = t[1] / t[2] *)
SimAtLeast(e, q, t) ==
    SignedSquare(Dot(e, q) * t[2]) >= SignedSquare(t[1]) * NormSq(e) * NormSq(q)

(* similarity(a, q) > similarity(b, q) *)
SimGreater(a, b, q) ==
    SignedSquare(Dot(a, q)) * NormSq(b) > SignedSquare(Dot(b, q)) * NormSq(a)

(* the dictionaries of the fallback, get_all_metrics()[:top_k] *)
Unscored(ids) == [k \in DOMAIN ids |-> Hydrate(ids[k])]

(* 1 - vec_distance_cosine(e, q), kept exact as <<e.q, |e|^2 |q|^2>>: the   *)
(* score is the first divided by the square root of the second               *)
similarity_score(e, q) == <<Dot(e, q), NormSq(e) * NormSq(q)>>

(* the dictionaries built from the rows of the index query *)
Scored(ids, query_embedding) ==
    [k \in DOMAIN ids |->
        [id |-> ids[k], metric_name |-> metrics[ids[k]].metric_name,
         description |-> metrics[ids[k]].description,
         example_query |-> metrics[ids[k]].example_query,
         similarity_score |-> similarity_score(metrics_vec[ids[k]], query_embedding),
         labels |-> get_metric_labels(ids[k]),
         templates |-> get_metric_templates(ids[k])]]

(* FROM metrics m JOIN metrics_vec mv ON m.id = mv.rowid *)
JoinedIds == DOMAIN metrics \cap DOMAIN metrics_vec

(* the query without its WHERE clause *)
SelectedNoThreshold(query_embedding, threshold) == JoinedIds

(* WHERE (1 - vec_distance_cosine(mv.embedding, ?)) >= ? *)
Selected(query_embedding, threshold) ==
    {i \in JoinedIds : SimAtLeast(metrics_vec[i], query_embedding, threshold)}

(* ORDER BY similarity_score ASC instead of DESC *)
RECURSIVE OrderedAscending(_, _)
OrderedAscending(S, query_embedding) ==
    IF S = {} THEN {<<>>}
    ELSE UNION {{<<i>> \o s : s \in OrderedAscending(S \ {i}, query_embedding)} :
                  i \in {j \in S : \A k \in S :
                            ~SimGreater(metrics_vec[j], metrics_vec[k], query_embedding)}}

(* ORDER BY similarity_score DESC: every order of the selected rows that is  *)
(* descending in similarity; SQL leaves the order of equal scores open, so   *)
(* each step may take any row that no remaining row beats.                   *)
RECURSIVE Ordered(_, _)
Ordered(S, query_embedding) ==
    IF S = {} THEN {<<>>}
    ELSE UNION {{<<i>> \o s : s \in Ordered(S \ {i}, query_embedding)} :
                  i \in {j \in S : \A k \in S :
                            ~SimGreater(metrics_vec[k], metrics_vec[j], query_embedding)}}

(* the index query raises: an injected failure, or vec_distance_cosine is    *)
(* evaluated on a joined row with a query vector of another dimension        *)
QueryFails(query_embedding, fault) ==
    \/ fault = "index"
    \/ JoinedIds # {} /\ vec_dimension # Some(Len(query_embedding))

(* similarity_search without the use_vector_search guard and its fallback:  *)
(* the query on the missing metrics_vec table raises                        *)
similarity_search_unguarded(query_embedding, top_k, threshold, fault) ==
    LET call == [NoCall EXCEPT !.op = "similarity_search",
                     !.embedding = Some(query_embedding), !.top_k = top_k,
                     !.threshold = threshold, !.fault = fault]
        fallback == Limit(AllMetricIds, top_k)
    IN  /\ fault = "index" => use_vector_search
        /\ IF ~use_vector_search
           THEN last' = [call EXCEPT !.path = "unavailable", !.outcome = "raise"]
           ELSE IF QueryFails(query_embedding, fault)
           THEN last' = [call EXCEPT !.path = "failed", !.ret_list = fallback,
                                  !.ret_rows = Unscored(fallback)]
           ELSE \E s \in Ordered(Selected(query_embedding, threshold), query_embedding) :
                   last' = [call EXCEPT !.path = "index", !.ret_list = Limit(s, top_k),
                               !.ret_rows = Scored(Limit(s, top_k), query_embedding)]
        /\ UNCHANGED <<store, instance>>

(* similarity_search whose except branch re-raises, as add_metric's does *)
similarity_search_reraises(query_embedding, top_k, threshold, fault) ==
    LET call == [NoCall EXCEPT !.op = "similarity_search",
                     !.embedding = Some(query_embedding), !.top_k = top_k,
                     !.threshold = threshold, !.fault = fault]
        fallback == Limit(AllMetricIds, top_k)
    IN  /\ fault = "index" => use_vector_search
        /\ IF ~use_vector_search
           THEN last' = [call EXCEPT !.path = "unavailable", !.ret_list = fallback,
                                  !.ret_rows = Unscored(fallback)]
           ELSE IF QueryFails(query_embedding, fault)
           THEN last' = [call EXCEPT !.path = "failed", !.outcome = "raise"]
           ELSE \E s \in Ordered(Selected(query_embedding, threshold), query_embedding) :
                   last' = [call EXCEPT !.path = "index", !.ret_list = Limit(s, top_k),
                               !.ret_rows = Scored(Limit(s, top_k), query_embedding)]
        /\ UNCHANGED <<store, instance>>

(* similarity_search whose query reads metrics_vec alone, without the JOIN   *)
(* on metrics: every index entry over the threshold is a row                *)
similarity_search_index_only(query_embedding, top_k, threshold, fault) ==
    LET call == [NoCall EXCEPT !.op = "similarity_search",
                     !.embedding = Some(query_embedding), !.top_k = top_k,
                     !.threshold = threshold, !.fault = fault]
        fallback == Limit(AllMetricIds, top_k)
        entries == {i \in DOMAIN metrics_vec :
                       SimAtLeast(metrics_vec[i], query_embedding, threshold)}
        present(i) == i \in DOMAIN metrics
    IN  /\ fault = "index" => use_vector_search
        /\ IF ~use_vector_search
           THEN last' = [call EXCEPT !.path = "unavailable", !.ret_list = fallback,
                                  !.ret_rows = Unscored(fallback)]
           ELSE IF QueryFails(query_embedding, fault)
           THEN last' = [call EXCEPT !.path = "failed", !.ret_list = fallback,
                                  !.ret_rows = Unscored(fallback)]
           ELSE \E s \in Ordered(entries, query_embedding) :
                   last' = [call EXCEPT !.path = "index", !.ret_list = Limit(s, top_k),
                               !.ret_rows = Scored(SelectSeq(Limit(s, top_k), present),
                                                   query_embedding)]
        /\ UNCHANGED <<store, instance>>

(* similarity_search whose except branch also clears use_vector_search, as  *)
(* _create_tables does when the vec0 table cannot be created                *)
similarity_search_downgrades(query_embedding, top_k, threshold, fault) ==
    LET call == [NoCall EXCEPT !.op = "similarity_search",
                     !.embedding = Some(query_embedding), !.top_k = top_k,
                     !.threshold = threshold, !.fault = fault]
        fallback == Limit(AllMetricIds, top_k)
    IN  /\ fault = "index" => use_vector_search
        /\ IF ~use_vector_search
           THEN /\ last' = [call EXCEPT !.path = "unavailable", !.ret_list = fallback,
                                     !.ret_rows = Unscored(fallback)]
                /\ UNCHANGED use_vector_search
           ELSE IF QueryFails(query_embedding, fault)
           THEN /\ last' = [call EXCEPT !.path = "failed", !.ret_list = fallback,
                                     !.ret_rows = Unscored(fallback)]
                /\ use_vector_search' = FALSE
           ELSE /\ \E s \in Ordered(Selected(query_embedding, threshold), query_embedding) :
                      last' = [call EXCEPT !.path = "index", !.ret_list = Limit(s, top_k),
                                  !.ret_rows = Scored(Limit(s, top_k), query_embedding)]
                /\ UNCHANGED use_vector_search
        /\ UNCHANGED <<store, pc, frame, vec_dimension, session>>

(* similarity_search: the fallback get_all_metrics()[:top_k] when the index  *)
(* is unavailable or its query raises, else the rows of the index query.     *)
(* path records which of the three served the call.                         *)
similarity_search(query_embedding, top_k, threshold, fault) ==
    LET call == [NoCall EXCEPT !.op = "similarity_search",
                     !.embedding = Some(query_embedding), !.top_k = top_k,
                     !.threshold = threshold, !.fault = fault]
        fallback == Limit(AllMetricIds, top_k)
    IN  /\ fault = "index" => use_vector_search
        /\ IF ~use_vector_search
           THEN last' = [call EXCEPT !.path = "unavailable", !.ret_list = fallback,
                                  !.ret_rows = Unscored(fallback)]
           ELSE IF QueryFails(query_embedding, fault)
           THEN last' = [call EXCEPT !.path = "failed", !.ret_list = fallback,
                                  !.ret_rows = Unscored(fallback)]
           ELSE \E s \in Ordered(Selected(query_embedding, threshold), query_embedding) :
                   last' = [call EXCEPT !.path = "index", !.ret_list = Limit(s, top_k),
                               !.ret_rows = Scored(Limit(s, top_k), query_embedding)]
        /\ UNCHANGED <<store, instance>>

SimilaritySearch ==
    /\ pc = "ready"
    /\ \E q \in QueryEmbeddings, k \in 1..MaxTopK, t \in Thresholds,
          f \in {"none", "index"} :
           similarity_search(q, k, t, f)

SearchAddMetric ==
    /\ pc = "ready"
    /\ sqlite_sequence.metrics < MaxSearchIds
    /\ \E i \in SearchInputs, f \in {"none", "index"} :
          add_metric(i[1], None, None, Some(i[2]), f)

SearchNext == SearchAddMetric \/ SimilaritySearch

SearchSpec == Init /\ [][SearchNext]_vars

-----------------------------------------------------------------------------
(* Text search.  SQLite's LIKE: % matches any run of characters, _ any one   *)
(* character, and letters compare without case for ASCII only.  % is 37,     *)
(* _ is 95, A..Z are 65..90 and a..z are 97..122.                            *)

Lower(c) == IF c \in 65..90 THEN c + 32 ELSE c

RECURSIVE Like(_, _)
Like(pattern, text) ==
    IF pattern = <<>> THEN text = <<>>
    ELSE IF Head(pattern) = 37
    THEN Like(Tail(pattern), text) \/ (text # <<>> /\ Like(pattern, Tail(text)))
    ELSE /\ text # <<>>
         /\ Head(pattern) = 95 \/ Lower(Head(pattern)) = Lower(Head(text))
         /\ Like(Tail(pattern), Tail(text))

(* column LIKE ? on a nullable column: NULL LIKE ? is NULL, which is not true *)
LikeColumn(pattern, column) == column # None /\ Like(pattern, column[1])

(* f"%{query_text}%": the query text goes into the pattern as it is *)
LikePattern(query_text) == <<37>> \o query_text \o <<37>>

(* WHERE metric_name LIKE ? OR description LIKE ? *)
TextMatched(pattern) ==
    {i \in DOMAIN metrics : \/ Like(pattern, metrics[i].metric_name)
                            \/ LikeColumn(pattern, metrics[i].description)}

(* CASE WHEN metric_name LIKE ? THEN 1 WHEN description LIKE ? THEN 2 ELSE 3 *)
TextRank(pattern, i) ==
    IF Like(pattern, metrics[i].metric_name) THEN 1
    ELSE IF LikeColumn(pattern, metrics[i].description) THEN 2 ELSE 3

(* ORDER BY the CASE expression alone: every order of the matched rows that *)
(* is ascending in rank; SQL leaves the order of rows of equal rank open.    *)
RECURSIVE RankOrdered(_, _)
RankOrdered(S, pattern) ==
    IF S = {} THEN {<<>>}
    ELSE UNION {{<<i>> \o s : s \in RankOrdered(S \ {i}, pattern)} :
                  i \in {j \in S : \A k \in S :
                            TextRank(pattern, j) <= TextRank(pattern, k)}}

(* search_by_text: the ids of the returned metrics, in order; each is        *)
(* returned hydrated with its labels and templates                           *)
search_by_text(query_text, top_k) ==
    LET call == [NoCall EXCEPT !.op = "search_by_text", !.name = query_text,
                     !.top_k = top_k]
        pattern == LikePattern(query_text)
    IN  /\ \E s \in RankOrdered(TextMatched(pattern), pattern) :
              last' = [call EXCEPT !.ret_list = Limit(s, top_k),
                                   !.ret_rows = Unscored(Limit(s, top_k))]
        /\ UNCHANGED <<store, instance>>

(* the <<metric_name, description>> pairs ingested before searching by text: *)
(* "b", "AB", "axb", and "c" described as "ab"                               *)
TextInputs == {<<(<<98>>), None>>, <<(<<65, 66>>), Some(<<99>>)>>,
               <<(<<97, 120, 98>>), None>>, <<(<<99>>), Some(<<97, 98>>)>>}

(* the query texts: "b", "ab", "a_b", and "z", which nothing contains *)
TextQueries == {<<98>>, <<97, 98>>, <<97, 95, 98>>, <<122>>}

SearchByText ==
    /\ pc = "ready"
    /\ \E q \in TextQueries, k \in 0..MaxTopK : search_by_text(q, k)

TextAddMetric ==
    /\ pc = "ready"
    /\ sqlite_sequence.metrics < MaxSearchIds
    /\ \E i \in TextInputs : add_metric(i[1], i[2], None, None, "none")

TextNext == TextAddMetric \/ SearchByText

TextSpec == Init /\ [][TextNext]_vars

GetAllMetrics ==
    /\ pc = "ready"
    /\ last' = [NoCall EXCEPT !.op = "get_all_metrics", !.ret_list = AllMetricIds,
                              !.ret_rows = get_all_metrics]
    /\ UNCHANGED <<store, instance>>

Next == AddMetric \/ AddMetricLabel \/ AddMetricTemplate \/ DeleteMetric

Spec == Init /\ [][Next]_vars

(* Labels re-added with other example values *)
ChildExampleValues == {None, Some(<<120>>), Some(<<121>>)}

ChildAddMetric ==
    /\ pc = "ready"
    /\ \E n \in MetricNames : add_metric(n, None, None, None, "none")

ChildAddMetricLabel ==
    /\ pc = "ready"
    /\ \E m \in MetricIds, l \in LabelNames, v \in ChildExampleValues,
          f \in {"none", "commit"} :
           add_metric_label(m, l, v, f)

ChildNext == ChildAddMetric \/ ChildAddMetricLabel \/ AddMetricTemplate \/ DeleteMetric

ChildSpec == Init /\ [][ChildNext]_vars

(* the writers and the listing *)
(* every operation of a constructed instance: the writers, and the reads   *)
(* similarity_search, search_by_text and get_all_metrics                     *)
AnySimilaritySearch ==
    /\ pc = "ready"
    /\ \E q \in QueryEmbeddings, f \in {"none", "index"} :
          similarity_search(q, MaxTopK, <<0, 1>>, f)

AnySearchByText ==
    /\ pc = "ready"
    /\ search_by_text(<<99>>, MaxTopK)

AnyNext == Next \/ AnySimilaritySearch \/ AnySearchByText \/ GetAllMetrics

AnySpec == Init /\ [][AnyNext]_vars

ListNext == Next \/ GetAllMetrics

ListSpec == Init /\ [][ListNext]_vars

(* The callers the catalog's contract assumes: a label or a template is only *)
(* added for a metric that exists at the time of the call.                   *)
OwnedAddMetricLabel ==
    /\ pc = "ready"
    /\ \E m \in DOMAIN metrics, l \in LabelNames, v \in ExampleValues,
          f \in {"none", "catalog"} :
           add_metric_label(m, l, v, f)

OwnedAddMetricTemplate ==
    /\ pc = "ready"
    /\ \E m \in DOMAIN metrics, t \in Templates, ty \in TemplateTypes,
          f \in {"none", "catalog"} :
           add_metric_template(m, t, ty, None, f)

OwnedNext == AddMetric \/ OwnedAddMetricLabel \/ OwnedAddMetricTemplate \/ DeleteMetric

OwnedSpec == Init /\ [][OwnedNext]_vars

(* Ingestion with arguments a careless caller passes: an empty metric name, *)
(* embeddings shorter and longer than embedding_dimension.                   *)
InputNames == {<<>>, <<99>>}
InputEmbeddings == {None, Some(<<1>>), Some(<<1, 0>>), Some(<<1, 0, 0>>)}

InputAddMetric ==
    /\ pc = "ready"
    /\ \E n \in InputNames, d \in Descriptions, e \in InputEmbeddings,
          f \in {"none", "index"} :
           add_metric(n, d, None, e, f)

InputNext == InputAddMetric \/ DeleteMetric

InputSpec == Init /\ [][InputNext]_vars

-----------------------------------------------------------------------------
(* Two threads calling add_metric on the one instance.  self.conn is shared *)
(* (check_same_thread=False) and the methods take no lock, so the statements *)
(* of both calls run in the connection's one transaction: the first INSERT   *)
(* opens it, any commit commits all of it, any rollback drops all of it.     *)
(* Each call to the sqlite3 module is one step.                              *)

(* the tables as the connection sees them *)
View == IF txn = None THEN Stored ELSE txn[1]

(* calls in progress *)
Running == {t \in Threads : threads[t].pc # "idle"}

(* INSERT OR REPLACE INTO metrics, and cursor.lastrowid *)
upsert_metric(t, row) ==
    LET metric_id == autoincrement(t.metrics, t.sqlite_sequence.metrics)
        kept == {i \in DOMAIN t.metrics : t.metrics[i].metric_name # row.metric_name}
    IN  [t EXCEPT !.metrics = Put(Restrict(t.metrics, kept), metric_id, row),
                  !.sqlite_sequence = [t.sqlite_sequence EXCEPT !.metrics = metric_id]]

(* a thread enters add_metric(metric_name, None, None, None) *)
Begin(t) ==
    /\ pc = "ready"
    /\ threads[t].pc = "idle"
    /\ View.sqlite_sequence.metrics + Cardinality(Running) < MaxInserts
    /\ \E n \in MetricNames, f \in {"none", "catalog", "commit"} :
          threads' = [threads EXCEPT ![t] =
              [pc |-> "execute",
               call |-> [NoCall EXCEPT !.op = "add_metric", !.name = n, !.fault = f]]]
    /\ UNCHANGED <<store, use_vector_search, pc, frame, vec_dimension, txn, last>>

(* cursor.execute(INSERT OR REPLACE ...); metric_id = cursor.lastrowid *)
Execute(t) ==
    /\ threads[t].pc = "execute"
    /\ LET call == threads[t].call
           row == [metric_name |-> call.name, description |-> None,
                   example_query |-> None, embedding |-> None]
           written == upsert_metric(View, row)
       IN  IF call.fault = "catalog"
           THEN /\ threads' = [threads EXCEPT ![t].pc = "except"]
                /\ UNCHANGED txn
           ELSE /\ txn' = Some(written)
                /\ threads' = [threads EXCEPT ![t] =
                       [pc |-> "commit",
                        call |-> [call EXCEPT !.ret_id = written.sqlite_sequence.metrics]]]
    /\ UNCHANGED <<store, use_vector_search, pc, frame, vec_dimension, last>>

(* self.conn.commit() and return metric_id; a failing commit goes to except *)
Commit(t) ==
    /\ threads[t].pc = "commit"
    /\ IF threads[t].call.fault = "commit"
       THEN /\ threads' = [threads EXCEPT ![t].pc = "except"]
            /\ UNCHANGED <<store, txn, last>>
       ELSE /\ Install(View)
            /\ txn' = None
            /\ last' = threads[t].call
            /\ threads' = [threads EXCEPT ![t] = Idle]
    /\ UNCHANGED <<use_vector_search, pc, frame, vec_dimension>>

(* an except branch that does not roll back: the transaction stays open *)
except_keeps_transaction(pending) == pending

(* self.conn.rollback() of an except branch: the connection's open          *)
(* transaction, if any, is dropped and none is open afterwards              *)
except_rollback(pending) == None

(* except: self.conn.rollback(); raise *)
Except(t) ==
    /\ threads[t].pc = "except"
    /\ txn' = except_rollback(txn)
    /\ last' = [threads[t].call EXCEPT !.outcome = "raise"]
    /\ threads' = [threads EXCEPT ![t] = Idle]
    /\ UNCHANGED <<store, use_vector_search, pc, frame, vec_dimension>>

ConcNext == \E t \in Threads : Begin(t) \/ Execute(t) \/ Commit(t) \/ Except(t)

ConcSpec == Init /\ [][ConcNext]_vars

-----------------------------------------------------------------------------
(* add_metric_label, add_metric_template and delete_metric statement by     *)
(* statement, on the shared connection.  A thread's pc names the statement  *)
(* it executes next; call.attempted lists the tables whose statement the    *)
(* call has executed so far, failed ones included.                          *)

(* rows inserted so far, as the connection sees them *)
ViewInserted ==
    View.sqlite_sequence.metrics + View.sqlite_sequence.metric_labels
        + View.sqlite_sequence.metric_templates

(* INSERT OR REPLACE INTO metric_labels, on UNIQUE(metric_id, label_name) *)
insert_label(t, row) ==
    LET label_id == autoincrement(t.metric_labels, t.sqlite_sequence.metric_labels)
        kept == {i \in DOMAIN t.metric_labels :
                    \/ t.metric_labels[i].metric_id # row.metric_id
                    \/ t.metric_labels[i].label_name # row.label_name}
    IN  [t EXCEPT !.metric_labels = Put(Restrict(t.metric_labels, kept), label_id, row),
                  !.sqlite_sequence = [t.sqlite_sequence EXCEPT !.metric_labels = label_id]]

(* INSERT INTO metric_templates *)
insert_template(t, row) ==
    LET template_id ==
            autoincrement(t.metric_templates, t.sqlite_sequence.metric_templates)
    IN  [t EXCEPT !.metric_templates = Put(t.metric_templates, template_id, row),
                  !.sqlite_sequence =
                      [t.sqlite_sequence EXCEPT !.metric_templates = template_id]]

(* DELETE FROM metrics_vec WHERE rowid = ? *)
delete_from_metrics_vec(t, metric_id) ==
    [t EXCEPT !.metrics_vec = Restrict(t.metrics_vec, DOMAIN t.metrics_vec \ {metric_id})]

(* DELETE FROM metric_templates WHERE metric_id = ? *)
delete_from_metric_templates(t, metric_id) ==
    [t EXCEPT !.metric_templates = Restrict(t.metric_templates,
        {i \in DOMAIN t.metric_templates : t.metric_templates[i].metric_id # metric_id})]

(* DELETE FROM metric_labels WHERE metric_id = ? *)
delete_from_metric_labels(t, metric_id) ==
    [t EXCEPT !.metric_labels = Restrict(t.metric_labels,
        {i \in DOMAIN t.metric_labels : t.metric_labels[i].metric_id # metric_id})]

(* DELETE FROM metrics WHERE id = ? *)
delete_from_metrics(t, metric_id) ==
    [t EXCEPT !.metrics = Restrict(t.metrics, DOMAIN t.metrics \ {metric_id})]

(* delete_metric with the DELETE on metrics moved to the front *)
delete_order_metric_first ==
    <<"metrics", "metrics_vec", "metric_templates", "metric_labels">>

(* the tables delete_metric's statements delete from, in program order *)
delete_order == <<"metrics_vec", "metric_templates", "metric_labels", "metrics">>

(* the pc after the statement on table: the next statement, or the commit *)
after_delete(table) ==
    LET k == CHOOSE i \in DOMAIN delete_order : delete_order[i] = table
    IN  IF k = Len(delete_order) THEN "commit_delete" ELSE delete_order[k + 1]

(* a thread enters add_metric_label(metric_id, label_name, None) *)
begin_label(t, metric_id, label_name, fault) ==
    /\ pc = "ready"
    /\ threads[t].pc = "idle"
    /\ ViewInserted + Cardinality(Running) < MaxInserts
    /\ threads' = [threads EXCEPT ![t] =
           [pc |-> "insert_label",
            call |-> [NoCall EXCEPT !.op = "add_metric_label", !.metric_id = metric_id,
                          !.name = label_name, !.fault = fault]]]
    /\ UNCHANGED <<store, use_vector_search, pc, frame, vec_dimension, txn, last>>

BeginLabel(t) ==
    \E i \in 1..(View.sqlite_sequence.metrics + 1), l \in LabelNames,
       f \in {"none", "catalog", "commit"} : begin_label(t, i, l, f)

(* cursor.execute(INSERT OR REPLACE INTO metric_labels ...); lastrowid *)
InsertLabel(t) ==
    /\ threads[t].pc = "insert_label"
    /\ LET call == [threads[t].call EXCEPT !.attempted = Append(@, "metric_labels")]
           row == [metric_id |-> call.metric_id, label_name |-> call.name,
                   example_values |-> None]
           written == insert_label(View, row)
       IN  IF call.fault = "catalog"
           THEN /\ threads' = [threads EXCEPT ![t] = [pc |-> "except", call |-> call]]
                /\ UNCHANGED txn
           ELSE /\ txn' = Some(written)
                /\ threads' = [threads EXCEPT ![t] =
                       [pc |-> "commit",
                        call |-> [call EXCEPT
                                     !.ret_id = written.sqlite_sequence.metric_labels]]]
    /\ UNCHANGED <<store, use_vector_search, pc, frame, vec_dimension, last>>

(* a thread enters add_metric_template(metric_id, template, template_type) *)
BeginTemplate(t) ==
    /\ pc = "ready"
    /\ threads[t].pc = "idle"
    /\ ViewInserted + Cardinality(Running) < MaxInserts
    /\ \E i \in 1..(View.sqlite_sequence.metrics + 1), x \in Templates,
          f \in {"none", "catalog", "commit"} :
          threads' = [threads EXCEPT ![t] =
              [pc |-> "insert_template",
               call |-> [NoCall EXCEPT !.op = "add_metric_template", !.metric_id = i,
                             !.name = x, !.fault = f]]]
    /\ UNCHANGED <<store, use_vector_search, pc, frame, vec_dimension, txn, last>>

(* cursor.execute(INSERT INTO metric_templates ...); lastrowid *)
InsertTemplate(t) ==
    /\ threads[t].pc = "insert_template"
    /\ LET call == [threads[t].call EXCEPT !.attempted = Append(@, "metric_templates")]
           row == [metric_id |-> call.metric_id, template |-> call.name,
                   template_type |-> CHOOSE y \in TemplateTypes : TRUE,
                   description |-> None]
           written == insert_template(View, row)
       IN  IF call.fault = "catalog"
           THEN /\ threads' = [threads EXCEPT ![t] = [pc |-> "except", call |-> call]]
                /\ UNCHANGED txn
           ELSE /\ txn' = Some(written)
                /\ threads' = [threads EXCEPT ![t] =
                       [pc |-> "commit",
                        call |-> [call EXCEPT
                                     !.ret_id = written.sqlite_sequence.metric_templates]]]
    /\ UNCHANGED <<store, use_vector_search, pc, frame, vec_dimension, last>>

(* a thread enters delete_metric(metric_id); existed and name keep what the *)
(* connection held for the id at that moment                                *)
begin_delete(t, metric_id, fault) ==
    /\ pc = "ready"
    /\ threads[t].pc = "idle"
    /\ fault = "index" => use_vector_search
    /\ threads' = [threads EXCEPT ![t] =
           [pc |-> delete_order[1],
            call |-> [NoCall EXCEPT !.op = "delete_metric", !.metric_id = metric_id,
                          !.fault = fault,
                          !.existed = metric_id \in DOMAIN View.metrics,
                          !.name = IF metric_id \in DOMAIN View.metrics
                                   THEN View.metrics[metric_id].metric_name
                                   ELSE <<>>]]]
    /\ UNCHANGED <<store, use_vector_search, pc, frame, vec_dimension, txn, last>>

BeginDelete(t) ==
    \E i \in 1..(View.sqlite_sequence.metrics + 1),
       f \in {"none", "index", "catalog", "commit"} : begin_delete(t, i, f)

(* if self.use_vector_search: try: DELETE FROM metrics_vec; a failure is    *)
(* logged and the call goes on                                              *)
DeleteIndex(t) ==
    /\ threads[t].pc = "metrics_vec"
    /\ LET call == threads[t].call
       IN  IF ~use_vector_search
           THEN /\ threads' = [threads EXCEPT ![t].pc = after_delete("metrics_vec")]
                /\ UNCHANGED txn
           ELSE /\ threads' = [threads EXCEPT ![t] =
                       [pc |-> after_delete("metrics_vec"),
                        call |-> [call EXCEPT !.attempted = Append(@, "metrics_vec")]]]
                /\ IF call.fault = "index"
                   THEN UNCHANGED txn
                   ELSE txn' = Some(delete_from_metrics_vec(View, call.metric_id))
    /\ UNCHANGED <<store, use_vector_search, pc, frame, vec_dimension, last>>

(* DELETE FROM metric_templates: the first statement whose failure ends the *)
(* call                                                                     *)
DeleteTemplates(t) ==
    /\ threads[t].pc = "metric_templates"
    /\ LET call == [threads[t].call EXCEPT !.attempted = Append(@, "metric_templates")]
       IN  IF call.fault = "catalog"
           THEN /\ threads' = [threads EXCEPT ![t] =
                       [pc |-> "except_delete", call |-> call]]
                /\ UNCHANGED txn
           ELSE /\ txn' = Some(delete_from_metric_templates(View, call.metric_id))
                /\ threads' = [threads EXCEPT ![t] =
                       [pc |-> after_delete("metric_templates"), call |-> call]]
    /\ UNCHANGED <<store, use_vector_search, pc, frame, vec_dimension, last>>

(* DELETE FROM metric_labels *)
DeleteLabels(t) ==
    /\ threads[t].pc = "metric_labels"
    /\ LET call == [threads[t].call EXCEPT !.attempted = Append(@, "metric_labels")]
       IN  /\ txn' = Some(delete_from_metric_labels(View, call.metric_id))
           /\ threads' = [threads EXCEPT ![t] =
                  [pc |-> after_delete("metric_labels"), call |-> call]]
    /\ UNCHANGED <<store, use_vector_search, pc, frame, vec_dimension, last>>

(* DELETE FROM metrics *)
DeleteMetricRow(t) ==
    /\ threads[t].pc = "metrics"
    /\ LET call == [threads[t].call EXCEPT !.attempted = Append(@, "metrics")]
       IN  /\ txn' = Some(delete_from_metrics(View, call.metric_id))
           /\ threads' = [threads EXCEPT ![t] =
                  [pc |-> after_delete("metrics"), call |-> call]]
    /\ UNCHANGED <<store, use_vector_search, pc, frame, vec_dimension, last>>

(* self.conn.commit(); return True; a failing commit goes to except *)
CommitDelete(t) ==
    /\ threads[t].pc = "commit_delete"
    /\ IF threads[t].call.fault = "commit"
       THEN /\ threads' = [threads EXCEPT ![t].pc = "except_delete"]
            /\ UNCHANGED <<store, txn, last>>
       ELSE /\ Install(View)
            /\ txn' = None
            /\ last' = [threads[t].call EXCEPT !.ret_ok = TRUE]
            /\ threads' = [threads EXCEPT ![t] = Idle]
    /\ UNCHANGED <<use_vector_search, pc, frame, vec_dimension>>

(* except: self.conn.rollback(); return False *)
ExceptDelete(t) ==
    /\ threads[t].pc = "except_delete"
    /\ txn' = except_rollback(txn)
    /\ last' = [threads[t].call EXCEPT !.ret_ok = FALSE]
    /\ threads' = [threads EXCEPT ![t] = Idle]
    /\ UNCHANGED <<store, use_vector_search, pc, frame, vec_dimension>>

(* the statements of delete_metric after its entry *)
DeleteSteps(t) ==
    \/ DeleteIndex(t)
    \/ DeleteTemplates(t)
    \/ DeleteLabels(t)
    \/ DeleteMetricRow(t)
    \/ CommitDelete(t)
    \/ ExceptDelete(t)

(* a thread enters add_metric *)
SerialBegin(t) ==
    /\ ViewInserted < MaxInserts
    /\ Begin(t)

(* one caller: the four mutating methods, one after the other, statement by *)
(* statement                                                                 *)
SerialNext ==
    \E t \in {"t1"} :
        \/ SerialBegin(t) \/ Execute(t)
        \/ BeginLabel(t) \/ InsertLabel(t)
        \/ BeginTemplate(t) \/ InsertTemplate(t)
        \/ Commit(t) \/ Except(t)
        \/ BeginDelete(t) \/ DeleteSteps(t)

SerialSpec == Init /\ [][SerialNext]_vars

(* a metric with an index entry is stored while no call is in progress *)
RaceAddMetric ==
    /\ pc = "ready"
    /\ Running = {} /\ txn = None
    /\ \E n \in MetricNames :
          /\ \A i \in DOMAIN metrics : metrics[i].metric_name # n
          /\ add_metric(n, None, None, Some(<<1, 0>>), "none")
    /\ UNCHANGED threads

(* a thread enters add_metric_label for a metric that another thread's      *)
(* delete_metric, begun when the metric existed, is deleting                 *)
RaceBeginLabel(t) ==
    \E u \in Threads \ {t}, l \in LabelNames, f \in {"none", "catalog"} :
        /\ threads[u].pc # "idle"
        /\ threads[u].call.op = "delete_metric"
        /\ threads[u].call.existed
        /\ begin_label(t, threads[u].call.metric_id, l, f)

(* a thread enters delete_metric for a metric that exists *)
RaceBeginDelete(t) ==
    \E i \in DOMAIN View.metrics, f \in {"none", "catalog"} : begin_delete(t, i, f)

(* delete_metric on one thread and add_metric_label on the other *)
RaceNext ==
    \/ RaceAddMetric
    \/ \E t \in Threads :
          \/ RaceBeginDelete(t) \/ DeleteSteps(t)
          \/ RaceBeginLabel(t) \/ InsertLabel(t) \/ Commit(t) \/ Except(t)

RaceSpec == Init /\ [][RaceNext]_vars

-----------------------------------------------------------------------------
(* The /query/ endpoint of the LLM router.  Texts are sequences of          *)
(* character codes; Python compares str values code point by code point.    *)

(* 'cyclops2025' *)
llm_secret == <<99, 121, 99, 108, 111, 112, 115, 50, 48, 50, 53>>

(* secret: str = 'letmepass' *)
default_secret == <<108, 101, 116, 109, 101, 112, 97, 115, 115>>

(* the secrets of the requests: 'cyclops2025', 'Cyclops2025', 'cyclops2025 ', *)
(* 'cyclops2024', 'cyclops', 'letmepass' given explicitly, '', and omitted  *)
SecretArgs ==
    {Some(llm_secret),
     Some(<<67, 121, 99, 108, 111, 112, 115, 50, 48, 50, 53>>),
     Some(<<99, 121, 99, 108, 111, 112, 115, 50, 48, 50, 53, 32>>),
     Some(<<99, 121, 99, 108, 111, 112, 115, 50, 48, 50, 52>>),
     Some(<<99, 121, 99, 108, 111, 112, 115>>),
     Some(default_secret), Some(<<>>), None}

(* the prompts of the requests, the empty one included *)
Prompts ==
    {<<>>, <<104, 105>>, <<117, 112>>, <<117, 112, 63>>, llm_secret, default_secret}

(* what llmClient.chat does with a prompt: one of three answers, or raise *)
ChatOutcomes == {"raise", "a", "b", "c"}

(* a guard that also lets the default secret through *)
authorized_or_default(secret) == secret \in {llm_secret, default_secret}

(* the negation of: if secret != 'cyclops2025' *)
authorized(secret) == secret = llm_secret

(* query_llm(prompt, secret): the error dictionary unless the secret is the *)
(* expected one, else {"response": llmClient.chat(prompt=prompt, ...)}; an  *)
(* exception of chat propagates                                             *)
query_llm(prompt, secret_arg) ==
    LET secret == IF secret_arg = None THEN default_secret ELSE secret_arg[1]
        call == [NoCall EXCEPT !.op = "query_llm", !.secret = secret_arg,
                     !.prompt = prompt]
    IN  /\ IF ~authorized(secret)
           THEN last' = [call EXCEPT !.ret_rows =
                            <<[error |-> "Unauthorized access. Invalid secret."]>>]
           ELSE \E r \in ChatOutcomes :
                   last' = IF r = "raise"
                           THEN [call EXCEPT !.chat = Some(prompt), !.outcome = "raise"]
                           ELSE [call EXCEPT !.chat = Some(prompt),
                                             !.ret_rows = <<[response |-> r]>>]
        /\ UNCHANGED <<store, instance>>

QueryLlm == \E p \in Prompts, s \in SecretArgs : query_llm(p, s)

LlmSpec == Init /\ [][QueryLlm]_vars

-----------------------------------------------------------------------------
(* Construction: __init__ and _initialize_db, one action per statement that *)
(* can fail, and _create_tables.  How a statement ends is the environment's  *)
(* choice.  pc "raised" is the constructor having raised: no instance.       *)

(* the loop over the names in another order *)
extension_names_reversed == <<"vector", "sqlite_vec", "vec0">>

(* the names _initialize_db passes to load_extension, in its order *)
extension_names == <<"vec0", "sqlite_vec", "vector">>

(* __init__ up to the call of _initialize_db, on a new database file *)
New ==
    /\ metrics = <<>>
    /\ metric_labels = <<>>
    /\ metric_templates = <<>>
    /\ metrics_vec = <<>>
    /\ sqlite_sequence = [metrics |-> 0, metric_labels |-> 0, metric_templates |-> 0]
    /\ use_vector_search = TRUE
    /\ last = NoCall
    /\ pc = "connect"
    /\ frame = None
    /\ vec_dimension = None
    /\ txn = None
    /\ threads = [t \in Threads |-> Idle]

(* the dimensions an earlier instance may have created metrics_vec with *)
StoredDimensions == {2, 3}

(* __init__ up to the call of _initialize_db, on a database file that an    *)
(* earlier instance with the extension loaded created and left without rows *)
Reopen ==
    /\ metrics = <<>>
    /\ metric_labels = <<>>
    /\ metric_templates = <<>>
    /\ metrics_vec = <<>>
    /\ sqlite_sequence = [metrics |-> 0, metric_labels |-> 0, metric_templates |-> 0]
    /\ use_vector_search = TRUE
    /\ last = NoCall
    /\ pc = "connect"
    /\ frame = None
    /\ vec_dimension \in {Some(d) : d \in StoredDimensions}
    /\ txn = None
    /\ threads = [t \in Threads |-> Idle]

(* the outer except of _initialize_db: log and re-raise *)
Raise(cause) ==
    /\ pc' = "raised"
    /\ frame' = None
    /\ last' = [NoCall EXCEPT !.op = "__init__", !.fault = cause,
                              !.outcome = "raise"]
    /\ UNCHANGED <<store, use_vector_search, vec_dimension, session>>

(* sqlite3.connect(self.db_path) *)
Connect ==
    /\ pc = "connect"
    /\ \E ok \in BOOLEAN :
          IF ok
          THEN /\ pc' = "enable_load_extension"
               /\ UNCHANGED <<store, use_vector_search, last, frame, vec_dimension, session>>
          ELSE Raise("connect")

(* self.conn.enable_load_extension(True): an interpreter whose sqlite3      *)
(* module was built without loadable-extension support has no such method   *)
(* (AttributeError), and no except clause of the try block handles that but *)
(* the outer one                                                             *)
EnableLoadExtension ==
    /\ pc = "enable_load_extension"
    /\ \E ok \in BOOLEAN :
          IF ok
          THEN /\ pc' = "load_extension"
               /\ frame' = Some([vec_loaded |-> FALSE, tried |-> 0, loaded |-> "",
                               attempted |-> <<>>])
               /\ UNCHANGED <<store, use_vector_search, last, vec_dimension, session>>
          ELSE Raise("enable_load_extension")

(* one round of the for loop: load_extension(extension_name) succeeds and   *)
(* the loop breaks, or raises sqlite3.OperationalError and the loop goes on; *)
(* after the last name, the sqlite_vec module is tried                       *)
LoadExtension ==
    /\ pc = "load_extension"
    /\ LET i == frame[1].tried + 1
       IN  \E ok \in BOOLEAN :
              IF ok
              THEN /\ frame' = Some([vec_loaded |-> TRUE, tried |-> i,
                                     loaded |-> extension_names[i],
                                     attempted |-> Append(frame[1].attempted,
                                                          extension_names[i])])
                   /\ pc' = "disable_load_extension"
              ELSE /\ frame' = Some([frame[1] EXCEPT !.tried = i,
                                        !.attempted = Append(@, extension_names[i])])
                   /\ pc' = IF i = Len(extension_names)
                            THEN "sqlite_vec_module" ELSE "load_extension"
    /\ UNCHANGED <<store, use_vector_search, last, vec_dimension, session>>

(* import sqlite_vec; sqlite_vec.load(self.conn): ImportError and           *)
(* AttributeError are caught; sqlite_vec.load calls conn.load_extension,     *)
(* whose sqlite3.OperationalError is not                                     *)
LoadModule ==
    /\ pc = "sqlite_vec_module"
    /\ \E r \in {"ok", "ImportError", "AttributeError", "OperationalError"} :
          IF r = "OperationalError"
          THEN Raise("sqlite_vec.load")
          ELSE /\ frame' = IF r = "ok"
                           THEN Some([frame[1] EXCEPT !.vec_loaded = TRUE,
                                        !.loaded = "sqlite_vec.load",
                                        !.attempted = Append(@, "sqlite_vec.load")])
                           ELSE Some([frame[1] EXCEPT
                                        !.attempted = Append(@, "sqlite_vec.load")])
               /\ pc' = "disable_load_extension"
               /\ UNCHANGED <<store, use_vector_search, last, vec_dimension, session>>

(* enable_load_extension(False), then use_vector_search set from vec_loaded *)
DisableLoadExtension ==
    /\ pc = "disable_load_extension"
    /\ use_vector_search' = frame[1].vec_loaded
    /\ pc' = "create_tables"
    /\ UNCHANGED <<store, last, frame, vec_dimension, session>>

(* _create_tables sets the flag from the outcome of CREATE VIRTUAL TABLE    *)
(* whether or not the extension was loaded                                   *)
vec_table_flag_from_creation(flag, created) == created

(* _create_tables: the vec0 table is created only with the flag set; a      *)
(* failure clears the flag                                                   *)
vec_table_flag(flag, created) == flag /\ created

(* CREATE VIRTUAL TABLE IF NOT EXISTS metrics_vec USING vec0(embedding      *)
(* float[embedding_dimension]): a table of that name that exists is left as *)
(* it is, whatever its column's dimension                                    *)
create_metrics_vec(existing) ==
    IF existing = None THEN Some(embedding_dimension) ELSE existing

(* _create_tables: the three CREATE TABLE IF NOT EXISTS and the commit raise *)
(* to the constructor's caller ("catalog"); a failing CREATE VIRTUAL TABLE   *)
(* ("vec0") is swallowed                                                     *)
CreateTables ==
    /\ pc = "create_tables"
    /\ \E r \in {"ok", "vec0", "catalog"} :
          IF r = "catalog"
          THEN Raise("create_tables")
          ELSE /\ use_vector_search' = vec_table_flag(use_vector_search, r = "ok")
               /\ pc' = "ready"
               /\ frame' = None
               /\ last' = [NoCall EXCEPT !.op = "__init__",
                              !.path = IF frame[1].vec_loaded
                                       THEN frame[1].loaded ELSE "none",
                              !.attempted = frame[1].attempted]
               /\ vec_dimension' = IF use_vector_search /\ r = "ok"
                                   THEN create_metrics_vec(vec_dimension)
                                   ELSE vec_dimension
               /\ UNCHANGED <<store, session>>

Construct ==
    \/ Connect
    \/ EnableLoadExtension
    \/ LoadExtension
    \/ LoadModule
    \/ DisableLoadExtension
    \/ CreateTables

(* the constructor, then any calls of the methods on the instance *)
LifeNext == Construct \/ Next

LifeSpec == New /\ [][LifeNext]_vars

(* the constructor on an existing file, then ingestion and deletion *)
ReopenNext == Construct \/ InputNext

ReopenSpec == Reopen /\ [][ReopenNext]_vars

-----------------------------------------------------------------------------
(* Properties *)

RowsNamed(metric_name) == {i \in DOMAIN metrics : metrics[i].metric_name = metric_name}

LabelsOf(metric_id) ==
    {i \in DOMAIN metric_labels : metric_labels[i].metric_id = metric_id}

TemplatesOf(metric_id) ==
    {i \in DOMAIN metric_templates : metric_templates[i].metric_id = metric_id}

(* C1: two add_metric calls in a row with identical arguments (name,        *)
(* description, example_query, embedding), both returning, return the same  *)
(* id, and exactly one metrics row carries that name afterwards.            *)
C1_UpsertIdempotent ==
    [][(/\ last.op = "add_metric" /\ last.outcome = "return"
        /\ last'.op = "add_metric" /\ last'.outcome = "return"
        /\ sqlite_sequence'.metrics # sqlite_sequence.metrics
        /\ last'.name = last.name /\ last'.description = last.description
        /\ last'.example_query = last.example_query
        /\ last'.embedding = last.embedding)
       => (/\ last'.ret_id = last.ret_id
           /\ Cardinality(RowsNamed(last.name)') = 1)]_vars

(* C2: after a delete_metric(id) that ran its cascade to the commit (it      *)
(* returned True), for a metric that had any number of labels and templates, *)
(* no metric_labels row and no metric_templates row has metric_id = id, and  *)
(* get_metric_by_name with the deleted metric's name returns None.           *)
C2_CascadeComplete ==
    (last.op = "delete_metric" /\ last.ret_ok)
        => /\ LabelsOf(last.metric_id) = {}
           /\ TemplatesOf(last.metric_id) = {}
           /\ last.metric_id \notin DOMAIN metrics
           /\ last.existed => get_metric_by_name(last.name) = None

(* C2 witness: a metric that owned a label and a template has been deleted *)
C2_Witness ==
    /\ last.op = "delete_metric" /\ last.ret_ok /\ last.existed
    /\ last.n_labels >= 1 /\ last.n_templates >= 1

(* C3: every rowid stored in metrics_vec is the id of a row of metrics,     *)
(* whatever add_metric and delete_metric calls ran, swallowed index         *)
(* failures included.                                                       *)
C3_IndexSubsetOfCatalog == DOMAIN metrics_vec \subseteq DOMAIN metrics

(* C4: when labels and templates are only ever added for a metric that      *)
(* exists at the time of the call, every metric_labels row and every        *)
(* metric_templates row references a row of metrics (no orphans).           *)
C4_NoOrphans ==
    /\ \A i \in DOMAIN metric_labels : metric_labels[i].metric_id \in DOMAIN metrics
    /\ \A i \in DOMAIN metric_templates :
          metric_templates[i].metric_id \in DOMAIN metrics

(* C5: an add_metric for a name that already exists keeps the metric: the   *)
(* labels and templates get_metric_by_name returned for the name before the *)
(* call are returned for it after the call, by get_metric_by_name and by    *)
(* get_all_metrics.                                                         *)
ListedChildren(metric_name) ==
    LET all == get_all_metrics
        at == {k \in DOMAIN all : all[k].metric_name = metric_name}
    IN  [labels |-> UNION {all[k].labels : k \in at},
         templates |-> UNION {all[k].templates : k \in at}]

C5_ReAddKeepsChildren ==
    [][\A n \in MetricNames :
        (/\ last'.op = "add_metric" /\ last'.outcome = "return" /\ last'.name = n
         /\ sqlite_sequence'.metrics # sqlite_sequence.metrics
         /\ get_metric_by_name(n) # None)
        => (/\ get_metric_by_name(n)' # None
            /\ get_metric_by_name(n)[1].labels
                  \subseteq (get_metric_by_name(n)')[1].labels
            /\ get_metric_by_name(n)[1].templates
                  \subseteq (get_metric_by_name(n)')[1].templates
            /\ get_metric_by_name(n)[1].labels \subseteq ListedChildren(n)'.labels
            /\ get_metric_by_name(n)[1].templates
                  \subseteq ListedChildren(n)'.templates)]_vars

-----------------------------------------------------------------------------
(* Properties of similarity_search *)

(* the embedding stored with the metric row, parsed as get_metric_by_name does *)
MetricEmbedding(i) == json_loads(metrics[i].embedding[1])

query_embedding_of(call) == call.embedding[1]

(* metric i has a similarity to the call's query and it is below the threshold *)
BelowThreshold(i, call) ==
    /\ i \in DOMAIN metrics
    /\ metrics[i].embedding # None
    /\ Len(MetricEmbedding(i)) = Len(query_embedding_of(call))
    /\ ~SimAtLeast(MetricEmbedding(i), query_embedding_of(call), call.threshold)

Returned(call) == {call.ret_list[k] : k \in DOMAIN call.ret_list}

(* C6, as claimed: no metric whose similarity to the query is strictly below *)
(* threshold is in the result of similarity_search, whichever path served    *)
(* the call.                                                                 *)
C6_ThresholdExclusionAnyPath ==
    (last.op = "similarity_search" /\ last.outcome = "return")
        => \A i \in Returned(last) : ~BelowThreshold(i, last)

(* C6, amended: no metric whose similarity to the query is strictly below    *)
(* threshold is in the result of a similarity_search served by the vector    *)
(* index (index available and the index query did not fail), for every      *)
(* query, top_k and threshold.                                              *)
C6_ThresholdExclusionIndexPath ==
    (last.op = "similarity_search" /\ last.path = "index")
        => \A i \in Returned(last) : ~BelowThreshold(i, last)

(* C6 witness: the index served a call, returned something, and left out an  *)
(* indexed metric that is below the threshold                                *)
C6_Witness ==
    /\ last.op = "similarity_search" /\ last.path = "index"
    /\ last.ret_list # <<>>
    /\ \E i \in JoinedIds : BelowThreshold(i, last) /\ i \notin Returned(last)

(* the indexed metrics that reach the call's threshold *)
Qualifying(call) ==
    {i \in JoinedIds :
        SimAtLeast(MetricEmbedding(i), query_embedding_of(call), call.threshold)}

Beats(i, j, call) ==
    SimGreater(MetricEmbedding(i), MetricEmbedding(j), query_embedding_of(call))

(* C7: a similarity_search served by the index returns the top_k             *)
(* highest-scoring indexed metrics among those with similarity >= threshold  *)
(* (each once, min(top_k, their number) of them, none left out beating one   *)
(* returned), in descending order of similarity; and when exactly three      *)
(* metrics m1, m2, m3 qualify with sim(m1) > sim(m2) > sim(m3) and           *)
(* top_k = 3, the result is exactly <<m1, m2, m3>>.                          *)
C7_RankedTopK ==
    (last.op = "similarity_search" /\ last.path = "index")
        => LET r == last.ret_list
               Q == Qualifying(last)
           IN  /\ Returned(last) \subseteq Q
               /\ Injective(r)
               /\ Len(r) = Min(last.top_k, Cardinality(Q))
               /\ \A a, b \in DOMAIN r : a < b => ~Beats(r[b], r[a], last)
               /\ \A i \in Q \ Returned(last) :
                     \A a \in DOMAIN r : ~Beats(i, r[a], last)
               /\ \A m1, m2, m3 \in Q :
                     (/\ Q = {m1, m2, m3} /\ last.top_k = 3
                      /\ Beats(m1, m2, last) /\ Beats(m2, m3, last))
                     => r = <<m1, m2, m3>>

(* C7 witness: three metrics of strictly decreasing similarity, all at or    *)
(* above the threshold, returned by the index for top_k = 3                  *)
C7_Witness ==
    /\ last.op = "similarity_search" /\ last.path = "index" /\ last.top_k = 3
    /\ Len(last.ret_list) = 3
    /\ Beats(last.ret_list[1], last.ret_list[2], last)
    /\ Beats(last.ret_list[2], last.ret_list[3], last)

(* C8: among metrics of equal similarity to the query, the result of a       *)
(* similarity_search served by the index is ordered, and cut to top_k, by    *)
(* ascending metric id.                                                      *)
C8_TiesByAscendingId ==
    (last.op = "similarity_search" /\ last.path = "index")
        => LET r == last.ret_list
               tie(i, j) == ~Beats(i, j, last) /\ ~Beats(j, i, last)
           IN  /\ \A a, b \in DOMAIN r : (a < b /\ tie(r[a], r[b])) => r[a] < r[b]
               /\ \A i \in Qualifying(last) \ Returned(last) :
                     \A a \in DOMAIN r : tie(i, r[a]) => r[a] < i

(* C9: with the index unavailable (use_vector_search False) similarity_search *)
(* returns a list, possibly empty, and does not raise, for every query,      *)
(* top_k, threshold and catalog content.                                     *)
C9_UnavailableReturnsList ==
    (last.op = "similarity_search" /\ ~use_vector_search)
        => /\ last.outcome = "return"
           /\ last.path = "unavailable"
           /\ Returned(last) \subseteq DOMAIN metrics
           /\ Len(last.ret_list) <= last.top_k

(* C9 witness: a call on an unavailable index, over a non-empty catalog,     *)
(* has returned a list                                                       *)
C9_Witness ==
    /\ last.op = "similarity_search" /\ ~use_vector_search
    /\ last.outcome = "return" /\ last.ret_list # <<>>

(* C10: with the index available, a similarity_search whose index query      *)
(* fails does not raise: it returns the fallback result,                     *)
(* get_all_metrics()[:top_k].                                                *)
C10_QueryFailureFallsBack ==
    (last.op = "similarity_search" /\ use_vector_search
        /\ QueryFails(query_embedding_of(last), last.fault))
        => /\ last.outcome = "return"
           /\ last.path = "failed"
           /\ last.ret_list = Limit(AllMetricIds, last.top_k)

(* C10 witness: an index query that failed was answered from the catalog *)
C10_Witness ==
    /\ last.op = "similarity_search" /\ use_vector_search /\ last.path = "failed"
    /\ last.fault = "index" /\ last.ret_list # <<>>

Writers == {"add_metric", "add_metric_label", "add_metric_template"}

CatalogFaults == {"catalog", "commit"}

(* C11: delete_metric returns True exactly when a metrics row with the given *)
(* id existed before the call, and False when none existed.                  *)
C11_TrueIffExisted ==
    last.op = "delete_metric" => (last.ret_ok <=> last.existed)

(* C12: a delete_metric call whose index DELETE failed still returns True    *)
(* and leaves no template, no label and no metrics row of that id stored.    *)
C12_IndexFailureStillDeletes ==
    (last.op = "delete_metric" /\ last.fault = "index")
        => /\ last.outcome = "return" /\ last.ret_ok
           /\ TemplatesOf(last.metric_id) = {}
           /\ LabelsOf(last.metric_id) = {}
           /\ last.metric_id \notin DOMAIN metrics

(* C12 witness: the index delete failed for a metric that had a label and a *)
(* template, and the metric is gone                                          *)
C12_Witness ==
    /\ last.op = "delete_metric" /\ last.fault = "index" /\ last.existed
    /\ last.n_labels >= 1 /\ last.n_templates >= 1
    /\ last.metric_id \notin DOMAIN metrics

(* C13: an add_metric call whose index INSERT failed returns normally the id *)
(* of a stored metrics row that carries the call's name and the serialised   *)
(* embedding in its embedding column.                                        *)
C13_IndexFailureStillCommits ==
    (last.op = "add_metric" /\ last.fault = "index")
        => /\ last.outcome = "return"
           /\ last.ret_id \in DOMAIN metrics
           /\ metrics[last.ret_id].metric_name = last.name
           /\ metrics[last.ret_id].embedding = EmbeddingColumn(last.embedding)
           /\ metrics[last.ret_id].embedding # None

(* C13 witness: the row of the returned id is stored with its embedding and *)
(* the index has no entry for it                                             *)
C13_Witness ==
    /\ last.op = "add_metric" /\ last.fault = "index" /\ last.outcome = "return"
    /\ last.ret_id \in DOMAIN metrics
    /\ last.ret_id \notin DOMAIN metrics_vec

(* C14: a step that is an add_metric, add_metric_label or add_metric_template *)
(* call failing at a catalog statement or at the commit raises and leaves    *)
(* every table, the index and the id counters as they were before the call.  *)
C14_FailedWriteRollsBack ==
    [][(last'.op \in Writers /\ last'.fault \in CatalogFaults)
          => (last'.outcome = "raise" /\ UNCHANGED store)]_vars

(* C14 witness: a commit failed after the call's statements ran, on a store *)
(* that holds rows                                                           *)
C14_Witness ==
    /\ last.op \in Writers /\ last.fault = "commit" /\ last.outcome = "raise"
    /\ metrics # <<>>

(* C15: every add_metric, add_metric_label, add_metric_template or           *)
(* delete_metric call in which a catalog statement or the commit failed ends *)
(* in a raised error, never in a normal return.                              *)
C15_CatalogFailureRaises ==
    (last.op \in Writers \cup {"delete_metric"} /\ last.fault \in CatalogFaults)
        => last.outcome = "raise"

(* C16: a step that is an add_metric_label or add_metric_template call with  *)
(* a metric_id naming no metrics row raises and inserts no row.              *)
C16_UnknownMetricRejected ==
    [][(last'.op \in {"add_metric_label", "add_metric_template"}
            /\ last'.metric_id \notin DOMAIN metrics)
          => (last'.outcome = "raise"
                /\ UNCHANGED <<metric_labels, metric_templates>>)]_vars

(* C17: an add_metric call with an empty metric name raises, and no stored  *)
(* metrics row has an empty name.                                            *)
C17_EmptyNameRejected ==
    /\ (last.op = "add_metric" /\ last.name = <<>>) => last.outcome = "raise"
    /\ \A i \in DOMAIN metrics : metrics[i].metric_name # <<>>

(* C18: every stored metrics row with an embedding holds a vector of exactly *)
(* embedding_dimension elements, and an add_metric call with an embedding of *)
(* another length raises.                                                    *)
C18_StoredEmbeddingHasDimension ==
    /\ \A i \in DOMAIN metrics :
          metrics[i].embedding # None
              => Len(json_loads(metrics[i].embedding[1])) = embedding_dimension
    /\ (last.op = "add_metric" /\ Truthy(last.embedding)
            /\ Len(last.embedding[1]) # embedding_dimension)
          => last.outcome = "raise"

(* C19: no step of the constructor or of any method takes use_vector_search *)
(* from False to True.                                                       *)
C19_DisabledStaysDisabled ==
    [][~use_vector_search => ~use_vector_search']_vars

(* C19 witness: a constructed instance without vector search has ingested a *)
(* metric with an embedding                                                  *)
C19_Witness ==
    /\ pc = "ready" /\ ~use_vector_search
    /\ last.op = "add_metric" /\ Truthy(last.embedding) /\ last.outcome = "return"

(* C20: a constructor that raises does so because the database could not be *)
(* opened or its catalog tables could not be created, never because of the   *)
(* loading of the vector extension.                                          *)
C20_ExtensionFailureNeverRaises ==
    (last.op = "__init__" /\ last.outcome = "raise")
        => last.fault \in {"connect", "create_tables"}

(* C21: no instance is constructed on a database whose metrics_vec table has *)
(* another dimension than the embedding_dimension passed to the constructor. *)
C21_MismatchRejected ==
    (pc = "ready" /\ vec_dimension # None)
        => vec_dimension = Some(embedding_dimension)

(* C22: a step that is an add_metric call returning normally, with the index *)
(* available and no failure, on a name whose row had an index entry, leaves  *)
(* no index entry of that earlier row: the entries written by earlier        *)
(* upserts of the name are gone.                                             *)
C22_UpsertRefreshesIndex ==
    [][\A i \in DOMAIN metrics :
          (/\ last'.op = "add_metric" /\ last'.outcome = "return"
           /\ last'.fault = "none" /\ use_vector_search
           /\ metrics[i].metric_name = last'.name
           /\ i \in DOMAIN metrics_vec)
          => i \notin DOMAIN metrics_vec']_vars

(* q occurs in text as a run of consecutive characters, letters compared     *)
(* without case                                                              *)
Contains(text, q) ==
    \E k \in 0..(Len(text) - Len(q)) :
        \A j \in 1..Len(q) : Lower(text[k + j]) = Lower(q[j])

NameContains(i, q) == Contains(metrics[i].metric_name, q)

DescriptionContains(i, q) ==
    metrics[i].description # None /\ Contains(metrics[i].description[1], q)

(* C23: search_by_text returns normally at most top_k metrics, each of which *)
(* contains the query text literally (letters compared without case) in its  *)
(* name or its description, and an empty list when no metric does.           *)
C23_LiteralSubstringOnly ==
    last.op = "search_by_text"
        => /\ last.outcome = "return"
           /\ Len(last.ret_list) <= last.top_k
           /\ \A k \in DOMAIN last.ret_list :
                 LET i == last.ret_list[k]
                 IN  NameContains(i, last.name) \/ DescriptionContains(i, last.name)

(* C24: in the result of search_by_text a metric matching on its name comes  *)
(* before every metric matching on its description only, two metrics of the  *)
(* same group come in ascending name order, and the result is the first      *)
(* top_k of the matching metrics in that order.                              *)
C24_NameMatchesFirstThenByName ==
    last.op = "search_by_text"
        => LET pattern == LikePattern(last.name)
               Before(i, j) ==
                   \/ TextRank(pattern, i) < TextRank(pattern, j)
                   \/ /\ TextRank(pattern, i) = TextRank(pattern, j)
                      /\ NameLess(metrics[i].metric_name, metrics[j].metric_name)
           IN  /\ \A k, l \in DOMAIN last.ret_list :
                     k < l => Before(last.ret_list[k], last.ret_list[l])
               /\ \A i \in TextMatched(pattern) :
                     (\A k \in DOMAIN last.ret_list : last.ret_list[k] # i)
                         => /\ Len(last.ret_list) = last.top_k
                            /\ \A k \in DOMAIN last.ret_list :
                                  Before(last.ret_list[k], i)

(* C25: get_all_metrics returns one dictionary per row of metrics and no     *)
(* other, in ascending metric_name order, each with the row's columns and    *)
(* with exactly the labels and the templates whose metric_id is the row's id.*)
C25_ListsEveryMetricOnceByName ==
    last.op = "get_all_metrics"
        => LET rows == last.ret_rows
           IN  /\ {rows[k].id : k \in DOMAIN rows} = DOMAIN metrics
               /\ Len(rows) = Cardinality(DOMAIN metrics)
               /\ \A k, l \in DOMAIN rows :
                     k < l => NameLess(rows[k].metric_name, rows[l].metric_name)
               /\ \A k \in DOMAIN rows :
                     LET i == rows[k].id
                     IN  /\ rows[k].metric_name = metrics[i].metric_name
                         /\ rows[k].description = metrics[i].description
                         /\ rows[k].example_query = metrics[i].example_query
                         /\ {x.id : x \in rows[k].labels} = LabelsOf(i)
                         /\ \A x \in rows[k].labels :
                               /\ x.label_name = metric_labels[x.id].label_name
                               /\ x.example_values = metric_labels[x.id].example_values
                         /\ {x.id : x \in rows[k].templates} = TemplatesOf(i)
                         /\ \A x \in rows[k].templates :
                               /\ x.template = metric_templates[x.id].template
                               /\ x.template_type = metric_templates[x.id].template_type
                               /\ x.description = metric_templates[x.id].description

(* C25 witness: two metrics are listed, one of them with a label, while the *)
(* other has none                                                            *)
C25_Witness ==
    /\ last.op = "get_all_metrics" /\ Len(last.ret_rows) = 2
    /\ \E k, l \in DOMAIN last.ret_rows :
          last.ret_rows[k].labels # {} /\ last.ret_rows[l].labels = {}

(* the dictionaries of a listing without the one of metric_id *)
Others(listing, metric_id) == SelectSeq(listing, LAMBDA r : r.id # metric_id)

(* C26: across a step that is a delete_metric call, the listing of           *)
(* get_all_metrics without the dictionary of the deleted id is the same      *)
(* before and after: the other metrics keep their place, their columns,      *)
(* their labels and their templates.                                         *)
C26_DeleteLeavesOthers ==
    [][\A m \in MetricIds :
          (last'.op = "delete_metric" /\ last'.metric_id = m)
              => Others(get_all_metrics', m) = Others(get_all_metrics, m)]_vars

(* C26 witness: a metric was deleted and another one, which has a template, *)
(* is still listed                                                           *)
C26_Witness ==
    /\ last.op = "delete_metric" /\ last.ret_ok /\ last.existed
    /\ last.metric_id \notin DOMAIN metrics
    /\ \E k \in DOMAIN get_all_metrics : get_all_metrics[k].templates # {}

(* C27: no two rows of metric_labels have the same metric_id and label_name, *)
(* and after an add_metric_label call that returned, the one row of its pair *)
(* is the row of the returned id and carries the call's example_values.      *)
C27_OneLabelPerPair ==
    /\ \A i, j \in DOMAIN metric_labels :
          (/\ metric_labels[i].metric_id = metric_labels[j].metric_id
           /\ metric_labels[i].label_name = metric_labels[j].label_name) => i = j
    /\ (last.op = "add_metric_label" /\ last.outcome = "return")
          => /\ {i \in LabelsOf(last.metric_id) :
                    metric_labels[i].label_name = last.name} = {last.ret_id}
             /\ metric_labels[last.ret_id].example_values = last.description

(* C27 witness: a label of a stored metric was re-added with example_values *)
(* that differ from None                                                     *)
C27_Witness ==
    /\ last.op = "add_metric_label" /\ last.outcome = "return" /\ last.existed
    /\ last.description # None
    /\ last.metric_id \in DOMAIN metrics

(* C28: a step that is an add_metric_template call returning normally adds  *)
(* one row, under an id no template row had, changes no other template row,  *)
(* and get_metric_templates of the call's metric_id returns one more         *)
(* template than before.                                                     *)
C28_TemplateAppended ==
    [][\A m \in MetricIds :
          (/\ last'.op = "add_metric_template" /\ last'.outcome = "return"
           /\ last'.metric_id = m)
          => /\ last'.ret_id \notin DOMAIN metric_templates
             /\ DOMAIN metric_templates' = DOMAIN metric_templates \cup {last'.ret_id}
             /\ \A i \in DOMAIN metric_templates :
                   metric_templates'[i] = metric_templates[i]
             /\ Cardinality(get_metric_templates(m)') =
                   Cardinality(get_metric_templates(m)) + 1]_vars

(* C28 witness: the template just added is identical to one the metric had *)
C28_Witness ==
    /\ last.op = "add_metric_template" /\ last.outcome = "return"
    /\ last.ret_id \in DOMAIN metric_templates
    /\ \E i \in DOMAIN metric_templates :
          i # last.ret_id /\ metric_templates[i] = metric_templates[last.ret_id]

(* C29: every dictionary similarity_search returns has a similarity_score,  *)
(* and the score is 0 in those returned by the fallback.                     *)
C29_EveryResultScored ==
    last.op = "similarity_search"
        => \A k \in DOMAIN last.ret_rows :
              /\ "similarity_score" \in DOMAIN last.ret_rows[k]
              /\ last.path # "index" => last.ret_rows[k].similarity_score[1] = 0

(* C30: with two threads calling add_metric on the instance, when a call has *)
(* returned its id the row of its metric name is stored (committed): no      *)
(* rollback of the other thread's call has dropped it.                       *)
C30_ReturnedMeansCommitted ==
    (last.op = "add_metric" /\ last.outcome = "return")
        => \E i \in DOMAIN metrics : metrics[i].metric_name = last.name
(* C34: a similarity_search served by the fallback (index unavailable, or   *)
(* its query failed) returns exactly the first top_k dictionaries of        *)
(* get_all_metrics, whatever the query embedding and the threshold were.    *)
C34_FallbackIsFirstTopKByName ==
    (last.op = "similarity_search" /\ last.outcome = "return"
        /\ last.path \in {"unavailable", "failed"})
    => /\ Len(last.ret_rows) = Min(last.top_k, Len(get_all_metrics))
       /\ \A k \in DOMAIN last.ret_rows : last.ret_rows[k] = get_all_metrics[k]
       /\ \A k \in DOMAIN last.ret_list : last.ret_list[k] = last.ret_rows[k].id

C34_Witness ==
    /\ last.op = "similarity_search" /\ last.path = "failed"
    /\ last.threshold = <<7, 10>>
    /\ last.top_k >= 1 /\ Len(get_all_metrics) > last.top_k
    /\ Len(last.ret_rows) = last.top_k

(* the index entries whose metric row is gone: left behind by a replace *)
StaleEntries == DOMAIN metrics_vec \ DOMAIN metrics

(* C39: a similarity_search served by the index returns only metrics that   *)
(* are in the catalog now, under their current id and name, also when       *)
(* metrics_vec still holds entries of replaced metrics.                     *)
C39_IndexResultsAreCurrentMetrics ==
    (last.op = "similarity_search" /\ last.path = "index")
    => /\ \A k \in DOMAIN last.ret_list :
             /\ last.ret_list[k] \in DOMAIN metrics
             /\ last.ret_list[k] \notin StaleEntries
       /\ Len(last.ret_rows) = Len(last.ret_list)
       /\ \A k \in DOMAIN last.ret_rows :
             /\ last.ret_rows[k].id = last.ret_list[k]
             /\ last.ret_rows[k].id \in DOMAIN metrics
             /\ last.ret_rows[k].metric_name = metrics[last.ret_rows[k].id].metric_name

C39_Witness ==
    /\ last.op = "similarity_search" /\ last.path = "index"
    /\ last.ret_list # <<>>
    /\ \E i \in StaleEntries :
          SimAtLeast(metrics_vec[i], last.embedding[1], last.threshold)

(* a step in which add_metric returned an id *)
AddMetricReturned == last' # last /\ last'.op = "add_metric" /\ last'.outcome = "return"

(* the metric ids that rows of the store are keyed by *)
KeyedIds ==
    DOMAIN metrics \cup DOMAIN metrics_vec
        \cup {metric_labels[i].metric_id : i \in DOMAIN metric_labels}
        \cup {metric_templates[i].metric_id : i \in DOMAIN metric_templates}

(* C37: the id add_metric returns is above every metric id assigned before: *)
(* the largest id assigned so far never shrinks, also across delete_metric, *)
(* and the returned id is above it, so it is the id of no metric row, index *)
(* entry, label or template that an earlier metric left behind.             *)
C37_IdsNeverReused ==
    [][/\ sqlite_sequence'.metrics >= sqlite_sequence.metrics
       /\ \A i \in DOMAIN metrics \cup DOMAIN metrics_vec : i <= sqlite_sequence.metrics
       /\ AddMetricReturned =>
             /\ last'.ret_id > sqlite_sequence.metrics
             /\ last'.ret_id = sqlite_sequence'.metrics
             /\ \A i \in KeyedIds : i <= sqlite_sequence.metrics => i < last'.ret_id]_vars

C37_Witness ==
    /\ last.op = "add_metric" /\ last.outcome = "return" /\ last.ret_id >= 2
    /\ \E i \in DOMAIN metric_labels :
          /\ metric_labels[i].metric_id < last.ret_id
          /\ metric_labels[i].metric_id \notin DOMAIN metrics

(* the candidates in the order the constructor is to try them *)
Candidates == <<"vec0", "sqlite_vec", "vector", "sqlite_vec.load">>

IsPrefix(s, t) == Len(s) <= Len(t) /\ s = SubSeq(t, 1, Len(s))

(* C36: the constructor attempts vec0, sqlite_vec, vector and then the      *)
(* sqlite_vec module, in that order; the candidate that loaded is the last  *)
(* one attempted; and the constructed store has use_vector_search set if    *)
(* and only if a candidate loaded and the metrics_vec table was created.    *)
C36_CandidatesInOrderFirstSuccessWins ==
    /\ frame # None =>
          /\ IsPrefix(frame[1].attempted, Candidates)
          /\ frame[1].vec_loaded <=> frame[1].loaded # ""
          /\ frame[1].vec_loaded =>
                frame[1].loaded = frame[1].attempted[Len(frame[1].attempted)]
          /\ (pc = "create_tables" /\ ~frame[1].vec_loaded) =>
                frame[1].attempted = Candidates
    /\ (pc = "ready" /\ last.op = "__init__") =>
          /\ IsPrefix(last.attempted, Candidates)
          /\ last.path # "none" => last.path = last.attempted[Len(last.attempted)]
          /\ last.path = "none" => last.attempted = Candidates
          /\ use_vector_search <=> (last.path # "none" /\ vec_dimension # None)

C36_Witness ==
    /\ pc = "ready" /\ last.op = "__init__"
    /\ last.attempted = <<"vec0", "sqlite_vec">>
    /\ last.path = "sqlite_vec"
    /\ use_vector_search

(* C38: no operation of a constructed instance changes use_vector_search,   *)
(* whether its index statement failed or not, so a similarity_search on an  *)
(* instance with the flag set always attempts the index query.              *)
C38_FlagFixedAfterConstruction ==
    [][/\ use_vector_search' = use_vector_search
       /\ (last' # last /\ last'.op = "similarity_search" /\ use_vector_search)
             => last'.path \in {"index", "failed"}]_vars

(* a similarity_search attempted the index, and failed, on an instance      *)
(* where an index write had failed before                                   *)
C38_Witness ==
    /\ use_vector_search
    /\ last.op = "similarity_search" /\ last.path = "failed" /\ last.fault = "index"
    /\ \E i \in DOMAIN metrics \ DOMAIN metrics_vec : metrics[i].embedding # None

(* C31: in RaceSpec every add_metric_label begins while a delete_metric of  *)
(* its metric, which existed then, is in progress.  Once no call is in      *)
(* progress, no label row references a metric id whose row is gone.         *)
C31_NoOrphanAfterRace ==
    Running = {} =>
        \A i \in DOMAIN metric_labels : metric_labels[i].metric_id \in DOMAIN metrics

(* C32: with one caller, no transaction is open on the connection whenever  *)
(* no call is in progress: each of add_metric, add_metric_label,            *)
(* add_metric_template and delete_metric has committed or rolled back what  *)
(* it wrote by the time it returns or raises.                               *)
C32_NoOpenTransactionBetweenCalls ==
    threads["t1"].pc = "idle" => txn = None

C32_Witness ==
    /\ threads["t1"].pc = "idle" /\ txn = None
    /\ last.op = "delete_metric" /\ last.fault = "commit" /\ ~last.ret_ok
    /\ last.existed /\ "metrics" \in {last.attempted[k] : k \in DOMAIN last.attempted}
    /\ last.metric_id \in DOMAIN metrics

(* the delete_metric calls in progress, and the latest one that returned *)
DeleteCalls ==
    {threads[t].call : t \in {u \in Threads : threads[u].call.op = "delete_metric"}}
        \cup (IF last.op = "delete_metric" THEN {last} ELSE {})

(* the order delete_metric is to go through the tables *)
DeleteOrder ==
    IF use_vector_search
    THEN <<"metrics_vec", "metric_templates", "metric_labels", "metrics">>
    ELSE <<"metric_templates", "metric_labels", "metrics">>

(* C35: delete_metric goes through the index entry (when the index is       *)
(* available), the templates, the labels and then the metric row, in that   *)
(* order: while any of the first three has not been attempted, the metric   *)
(* row the call found is still there.                                       *)
C35_MetricRowRemovedLast ==
    /\ \A c \in DeleteCalls : IsPrefix(c.attempted, DeleteOrder)
    /\ \A t \in Threads :
          LET c == threads[t].call
          IN  (threads[t].pc # "idle" /\ c.op = "delete_metric" /\ c.existed
                  /\ c.metric_id \notin DOMAIN View.metrics)
              => c.attempted = DeleteOrder

C35_Witness ==
    /\ use_vector_search
    /\ threads["t1"].pc = "commit_delete"
    /\ threads["t1"].call.existed
    /\ threads["t1"].call.attempted = DeleteOrder
    /\ threads["t1"].call.metric_id \in DOMAIN metrics
    /\ threads["t1"].call.metric_id \notin DOMAIN View.metrics

(* C33: query_llm calls llmClient.chat, with the request's prompt, if and   *)
(* only if the secret parameter was given and is exactly 'cyclops2025';     *)
(* every other request, one without the parameter included, gets the        *)
(* 'Unauthorized access. Invalid secret.' dictionary and no call of chat.   *)
C33_ChatIffSecret ==
    last.op = "query_llm" =>
        LET given == last.secret =
                Some(<<99, 121, 99, 108, 111, 112, 115, 50, 48, 50, 53>>)
        IN  /\ given <=> last.chat # None
            /\ given => last.chat = Some(last.prompt)
            /\ ~given => /\ last.outcome = "return"
                          /\ last.ret_rows =
                                <<[error |-> "Unauthorized access. Invalid secret."]>>

C33_Witness ==
    /\ last.op = "query_llm" /\ last.secret = None
    /\ last.chat = None /\ last.prompt # <<>>
    /\ last.ret_rows # <<>>

====
